---- MODULE Spec2Model ----
(***************************************************************************)
(* A model of bb_inflator/cli.py: the base resolver                        *)
(* (parse_kustomization_for_git_info), the local materializer              *)
(* (copy_and_rewrite_kustomization, driven by                              *)
(* kustomize_build_with_local_base), the values merge of                   *)
(* extract_values_from_kustomization, the walk of                          *)
(* find_secrets_files_recursive, and deep_merge.                           *)
(*                                                                         *)
(* Strings are sequences of tokens.  A token is a run of characters that   *)
(* the code never looks inside ("git::", "?ref=", "https:", "//", "/",     *)
(* "..", ".", and plain names), so that startswith, find, split, lstrip,   *)
(* rstrip, os.path.join, normpath and relpath are computed on the text     *)
(* as the code computes them.  A directory is the sequence of the names    *)
(* of its absolute, normalized path.                                       *)
(***************************************************************************)
EXTENDS Integers, Sequences, FiniteSets, TLC

VARIABLES
    fs,        \* the overlay tree on disk: directory -> its descriptor file
    rstack,    \* parse_kustomization_for_git_info: the call stack
    seen,      \* parse_kustomization_for_git_info: the shared `seen` set
    visits,    \* how many times each directory's descriptor was read (history)
    rstatus,   \* "running", "returned" or "raised"
    rresult,   \* the (repo_url, ref, subdir) returned, or NoResult
    mstack,    \* copy_and_rewrite_kustomization: the call stack
    dest,      \* the tree written below the current directory
    placed,    \* the (source, destination) pairs of the calls made (history)
    mstatus,   \* "idle", "running", "done" or "error"
    docs,      \* extract_values: the ConfigMap documents of the build output
    files,     \* extract_values: secrets.enc.yaml file -> its decrypted documents
    values_from,   \* the HelmRelease's spec.valuesFrom
    secret_files,  \* list(found): the files in the order they are iterated
    configmaps,    \* name -> raw values.yaml
    secrets,       \* name -> raw values.yaml, in insertion order
    merged_values, \* the accumulator of the merge
    frags,     \* the documents given to deep_merge so far (history)
    epos,      \* the next file, then the next entry of values_from
    estatus,   \* "build", "list", "decrypt", "merge", "done", "nodata", "error"
    dm_a,      \* deep_merge: the argument a
    dm_b,      \* deep_merge: the argument b
    dm_result, \* deep_merge: the value returned
    dm_pc,     \* "call", "returned" or "idle"
    enc,       \* the directories that hold a secrets.enc.yaml file
    fstack,    \* find_secrets_files_recursive: the worklist `stack`
    fseen,     \* find_secrets_files_recursive: its `seen` set
    found,     \* find_secrets_files_recursive: the files found so far
    fvisits,   \* how many times each directory was processed (history)
    fstatus    \* "idle", "running", "returned" or "raised"

rvars == <<fs, rstack, seen, visits, rstatus, rresult>>
mvars == <<mstack, dest, placed, mstatus>>
evars == <<docs, files, values_from, secret_files, configmaps, secrets,
           merged_values, frags, epos, estatus>>
vars == <<fs, rstack, seen, visits, rstatus, rresult, mstack, dest, placed, mstatus,
          docs, files, values_from, secret_files, configmaps, secrets,
          merged_values, frags, epos, estatus, dm_a, dm_b, dm_result, dm_pc,
          enc, fstack, fseen, found, fvisits, fstatus>>
dvars == <<dm_a, dm_b, dm_result, dm_pc>>
fvars == <<enc, fstack, fseen, found, fvisits, fstatus>>

----------------------------------------------------------------------------
(* Bounds *)

\* The number of base references in the whole overlay tree.
MaxRefs == 4

\* The interpreter's recursion limit, counted in calls of
\* copy_and_rewrite_kustomization: one call more raises RecursionError.
MaxDepth == 5

\* The number of entries of valuesFrom.
MaxOrder == 2

\* The number of keys, at all levels together, of an argument of deep_merge.
MaxEntries == 3

----------------------------------------------------------------------------
(* Text and paths *)

\* base.startswith("git::")
IsGit(base) == Len(base) > 0 /\ base[1] = "git::"

\* The position of the first token `tok` at or after position `from`, 0 if none
\* (str.find, shifted by one).
RECURSIVE Find(_, _, _)
Find(s, tok, from) ==
    IF from > Len(s) THEN 0
    ELSE IF s[from] = tok THEN from
    ELSE Find(s, tok, from + 1)

\* s.split(tok): the pieces of s between the occurrences of tok.
RECURSIVE Split(_, _)
Split(s, tok) ==
    LET i == Find(s, tok, 1)
    IN IF i = 0 THEN <<s>>
       ELSE <<SubSeq(s, 1, i - 1)>> \o Split(SubSeq(s, i + 1, Len(s)), tok)

IsSlash(t) == t = "/" \/ t = "//"

\* s.rstrip("/")
RECURSIVE RStrip(_)
RStrip(s) ==
    IF Len(s) > 0 /\ IsSlash(s[Len(s)]) THEN RStrip(SubSeq(s, 1, Len(s) - 1))
    ELSE s

\* s.lstrip("/")
RECURSIVE LStrip(_)
LStrip(s) ==
    IF Len(s) > 0 /\ IsSlash(s[1]) THEN LStrip(Tail(s)) ELSE s

\* The names between the separators of a path text.
Comps(text) == SelectSeq(text, LAMBDA t : ~IsSlash(t))

\* os.path.join(dir, text), as a sequence of names (dir is absolute).
Join(dir, text) ==
    IF Len(text) > 0 /\ IsSlash(text[1]) THEN Comps(text) ELSE dir \o Comps(text)

\* os.path.normpath of an absolute path given by its names.
RECURSIVE NormFrom(_, _)
NormFrom(acc, rest) ==
    IF rest = <<>> THEN acc
    ELSE IF Head(rest) = "." THEN NormFrom(acc, Tail(rest))
    ELSE IF Head(rest) = ".."
         THEN NormFrom(IF acc = <<>> THEN acc ELSE SubSeq(acc, 1, Len(acc) - 1),
                       Tail(rest))
    ELSE NormFrom(Append(acc, Head(rest)), Tail(rest))

normpath(names) == NormFrom(<<>>, names)

\* The text of a relative path given by its names: the names joined by "/".
RECURSIVE PathText(_)
PathText(names) ==
    IF Len(names) <= 1 THEN names
    ELSE <<Head(names), "/">> \o PathText(Tail(names))

\* The length of the longest common prefix of two paths.
RECURSIVE CommonLen(_, _)
CommonLen(p, q) ==
    IF p = <<>> \/ q = <<>> \/ Head(p) # Head(q) THEN 0
    ELSE 1 + CommonLen(Tail(p), Tail(q))

\* os.path.relpath(path, start=start), as text.
relpath(path, start) ==
    LET c    == CommonLen(path, start)
        ups  == [i \in 1..(Len(start) - c) |-> ".."]
        rest == SubSeq(path, c + 1, Len(path))
    IN IF ups \o rest = <<>> THEN <<".">> ELSE PathText(ups \o rest)

----------------------------------------------------------------------------
(* The overlay tree *)

Root == <<"r", "ov">>          \* the kustomization_dir given on the command line
SubA == <<"r", "ov", "a">>
Lib  == <<"r", "lib">>

DescDirs == {Root, SubA, Lib}

GitFull  == <<"git::", "https:", "//", "h", "/", "repo", "//", "sub", "?ref=", "v1">>
GitPlain == <<"git::", "x", "/", "y", "?ref=", "v2">>
GitNoRef == <<"git::", "x", "/", "y">>
GitTwice == <<"git::", "x", "?ref=", "v1", "?ref=", "v2">>

\* The base references a descriptor of each directory may list.
Pool(d) ==
    CASE d = Root -> { <<".", "/", "a">>, <<"..", "/", "lib">>, <<".">>,
                       GitFull, GitTwice }
      [] d = SubA -> { <<"..">>, <<"..", "/", "..", "/", "lib">>, GitPlain, GitTwice }
      [] d = Lib  -> { <<"..", "/", "ov", "/", "a">>, <<"..", "/", "ov">>,
                       GitFull, GitNoRef }

\* A descriptor file: absent, empty (yaml.safe_load gives None), or a mapping
\* with a "bases" list, stored as kustomization.yaml or kustomization.yml.
NoDesc == [kind |-> "none", bases |-> <<>>]

DescOf(p) == IF p \in DOMAIN fs THEN fs[p] ELSE NoDesc

\* os.path.exists of kustomization.yaml or of kustomization.yml
HasDesc(p) == DescOf(p).kind # "none"

Desc(kind, bases) == [kind |-> kind, bases |-> bases]

\* The file kinds a descriptor of directory d with n base references may have.
\* kustomization.yml is read exactly as kustomization.yaml is; the name only
\* makes a difference to a directory that shutil.copytree copies, so only
\* SubA, the one directory below Root, is given both names.
Kinds(d, n) ==
    (IF n = 0 THEN {"none", "empty"} ELSE {})
        \cup {"yaml"} \cup (IF d = SubA THEN {"yml"} ELSE {})

\* Every overlay tree over DescDirs with at most MaxRefs base references.
InitFs ==
    \E nR \in 0..MaxRefs : \E nA \in 0..(MaxRefs - nR) :
    \E nL \in 0..(MaxRefs - nR - nA) :
    \E bR \in [1..nR -> Pool(Root)] : \E bA \in [1..nA -> Pool(SubA)] :
    \E bL \in [1..nL -> Pool(Lib)] :
    \E kR \in Kinds(Root, nR) : \E kA \in Kinds(SubA, nA) :
    \E kL \in Kinds(Lib, nL) :
        fs = [d \in DescDirs |->
                CASE d = Root -> Desc(kR, bR)
                  [] d = SubA -> Desc(kA, bA)
                  [] d = Lib  -> Desc(kL, bL)]

----------------------------------------------------------------------------
(* ReferenceParser: lines 134-167 of parse_kustomization_for_git_info *)

\* Python's None is the empty option, a value v is <<v>>.
None == <<>>
Some(v) == <<v>>

\* url_part.startswith("https://") or url_part.startswith("http://")
HasScheme(url_part) ==
    /\ Len(url_part) >= 2
    /\ url_part[1] \in {"https:", "http:"}
    /\ url_part[2] = "//"

\* The (repo_url, subdir) split of url_part, before the strips.
SplitUrl(url_part) ==
    LET proto_sep  == 3
        subdir_sep == IF HasScheme(url_part) THEN Find(url_part, "//", proto_sep)
                      ELSE Find(url_part, "//", 1)
    IN IF subdir_sep # 0
       THEN <<SubSeq(url_part, 1, subdir_sep - 1),
              SubSeq(url_part, subdir_sep + 1, Len(url_part))>>
       ELSE <<url_part, <<>>>>

\* url_part, ref_part = base_stripped.split("?ref=") raises ValueError unless
\* the split gives exactly two pieces.
ParseRaises(base) ==
    LET base_stripped == Tail(base)
    IN /\ Find(base_stripped, "?ref=", 1) # 0
       /\ Len(Split(base_stripped, "?ref=")) # 2

\* The (repo_url, ref, subdir) returned for a base that starts with "git::".
ParseGit(base) ==
    LET base_stripped == Tail(base)
    IN IF Find(base_stripped, "?ref=", 1) # 0
       THEN LET parts == Split(base_stripped, "?ref=")
                pair  == SplitUrl(parts[1])
            IN [repo_url |-> RStrip(pair[1]),
                ref      |-> Some(parts[2]),
                subdir   |-> LStrip(pair[2])]
       ELSE [repo_url |-> base_stripped, ref |-> None, subdir |-> <<>>]

----------------------------------------------------------------------------
(* BaseResolver: parse_kustomization_for_git_info *)

NoResult == [repo_url |-> <<>>, ref |-> None, subdir |-> <<>>]

Frame(dir) == [dir |-> dir, pc |-> "open", i |-> 1]

RTop == rstack[Len(rstack)]
RBases == DescOf(RTop.dir).bases
RBase == RBases[RTop.i]

\* local_base_path = os.path.normpath(os.path.join(kustomization_path, base))
LocalBasePath(dir, base) == normpath(Join(dir, base))

\* A cycle guard that records nothing.
SeenAddNothing(s, path) == s

\* seen.add(local_base_path)
SeenAdd(s, path) == s \cup {path}

\* The top frame with its loop moved to the next base (`continue`).
RContinue(stack) ==
    [stack EXCEPT ![Len(stack)].i = stack[Len(stack)].i + 1]

RInit ==
    /\ rstack = <<Frame(Root)>>
    /\ seen = {}
    /\ visits = [d \in DescDirs |-> 0]
    /\ rstatus = "running"
    /\ rresult = NoResult

\* An exception leaves the top call: the caller's `except Exception` goes on
\* with its next base (line 178); with no caller it leaves the resolution.
RRaise ==
    LET rest == SubSeq(rstack, 1, Len(rstack) - 1)
    IN IF rest = <<>>
       THEN /\ rstack' = <<>>
            /\ rstatus' = "raised"
       ELSE /\ rstack' = RContinue(rest)
            /\ rstatus' = rstatus

RRunning == rstatus = "running" /\ rstack # <<>>

\* Lines 114-123: no descriptor file, FileNotFoundError.
CanROpenMissing == RRunning /\ RTop.pc = "open" /\ ~HasDesc(RTop.dir)

ROpenMissing ==
    /\ CanROpenMissing
    /\ RRaise
    /\ UNCHANGED <<fs, seen, visits, rresult, mvars, evars, dvars, fvars>>

\* Lines 125-128 on an empty descriptor: kustom is None and kustom.get raises.
CanROpenEmpty == RRunning /\ RTop.pc = "open" /\ DescOf(RTop.dir).kind = "empty"

ROpenEmpty ==
    /\ CanROpenEmpty
    /\ visits' = [visits EXCEPT ![RTop.dir] = @ + 1]
    /\ RRaise
    /\ UNCHANGED <<fs, seen, rresult, mvars, evars, dvars, fvars>>

\* Lines 125-129: the descriptor is read and its bases taken.
CanROpenRead ==
    RRunning /\ RTop.pc = "open" /\ DescOf(RTop.dir).kind \in {"yaml", "yml"}

ROpenRead ==
    /\ CanROpenRead
    /\ visits' = [visits EXCEPT ![RTop.dir] = @ + 1]
    /\ rstack' = [rstack EXCEPT ![Len(rstack)].pc = "loop"]
    /\ UNCHANGED <<fs, seen, rstatus, rresult, mvars, evars, dvars, fvars>>

\* Line 130: the loop has a base to look at.
RInLoop == RRunning /\ RTop.pc = "loop" /\ RTop.i <= Len(RBases)

\* Lines 132-167: a git base is parsed and returned through every caller.
CanRGitReturn == RInLoop /\ IsGit(RBase) /\ ~ParseRaises(RBase)

RGitReturn ==
    /\ CanRGitReturn
    /\ rresult' = ParseGit(RBase)
    /\ rstatus' = "returned"
    /\ rstack' = <<>>
    /\ UNCHANGED <<fs, seen, visits, mvars, evars, dvars, fvars>>

\* Line 137: the unpacking of the split raises ValueError.
CanRGitRaise == RInLoop /\ IsGit(RBase) /\ ParseRaises(RBase)

RGitRaise ==
    /\ CanRGitRaise
    /\ RRaise
    /\ UNCHANGED <<fs, seen, visits, rresult, mvars, evars, dvars, fvars>>

\* Lines 172-174: a local base already in `seen` is skipped.
CanRLocalSeen ==
    RInLoop /\ ~IsGit(RBase) /\ LocalBasePath(RTop.dir, RBase) \in seen

RLocalSeen ==
    /\ CanRLocalSeen
    /\ rstack' = RContinue(rstack)
    /\ UNCHANGED <<fs, seen, visits, rstatus, rresult, mvars, evars, dvars, fvars>>

\* Lines 175-177: a new local base is added to `seen` and recursed into.
CanRLocalRecurse ==
    RInLoop /\ ~IsGit(RBase) /\ LocalBasePath(RTop.dir, RBase) \notin seen

RLocalRecurse ==
    /\ CanRLocalRecurse
    /\ seen' = SeenAdd(seen, LocalBasePath(RTop.dir, RBase))
    /\ rstack' = Append(rstack, Frame(LocalBasePath(RTop.dir, RBase)))
    /\ UNCHANGED <<fs, visits, rstatus, rresult, mvars, evars, dvars, fvars>>

\* Lines 181-198: after the loop repo_url is still None, whatever tag the
\* patches hold, so ValueError is raised.
CanRFallback == RRunning /\ RTop.pc = "loop" /\ RTop.i > Len(RBases)

RFallback ==
    /\ CanRFallback
    /\ RRaise
    /\ UNCHANGED <<fs, seen, visits, rresult, mvars, evars, dvars, fvars>>

\* Some step of the resolution can be taken.
RCanStep ==
    \/ CanROpenMissing \/ CanROpenEmpty \/ CanROpenRead
    \/ CanRGitReturn \/ CanRGitRaise
    \/ CanRLocalSeen \/ CanRLocalRecurse
    \/ CanRFallback

RNext ==
    \/ ROpenMissing
    \/ ROpenEmpty
    \/ ROpenRead
    \/ RGitReturn
    \/ RGitRaise
    \/ RLocalSeen
    \/ RLocalRecurse
    \/ RFallback

----------------------------------------------------------------------------
(* LocalMaterializer: kustomize_build_with_local_base and
   copy_and_rewrite_kustomization *)

Cwd == <<"w", "out">>          \* os.getcwd(), which is root_dest
RootSrc == Root
RootDest == Cwd

\* The text of an absolute path.
AbsText(names) == <<"/">> \o PathText(names)

\* Lines 589 and 599-600: the clone's path, with the subdirectory if any.
RepoLocalBase ==
    IF rresult.subdir = <<>> THEN AbsText(Append(Cwd, "cloned-bigbang-base"))
    ELSE AbsText(Append(Cwd, "cloned-bigbang-base")) \o <<"/">> \o rresult.subdir

\* A file of the destination tree: absent, empty, or a mapping with bases.
NoFile == [kind |-> "none", bases |-> <<>>]
MapFile(bases) == [kind |-> "map", bases |-> bases]
NoFiles == [yaml |-> NoFile, yml |-> NoFile]

\* The descriptor files of a source directory, by file name.
SrcFiles(d) ==
    LET k == DescOf(d).kind
    IN [yaml |-> IF k = "yaml" THEN MapFile(DescOf(d).bases)
                 ELSE IF k = "empty" THEN [kind |-> "empty", bases |-> <<>>]
                 ELSE NoFile,
        yml  |-> IF k = "yml" THEN MapFile(DescOf(d).bases) ELSE NoFile]

DestFiles(t, p) == IF p \in DOMAIN t THEN t[p] ELSE NoFiles

\* os.makedirs(dest_dir, exist_ok=True)
MakeDirs(t, p) ==
    [q \in DOMAIN t \cup {p} |-> DestFiles(t, q)]

IsPrefix(p, q) == Len(p) <= Len(q) /\ SubSeq(q, 1, Len(p)) = p

\* Lines 552-557: the directories that the shutil.copytree calls of one
\* source directory copy: everything below it but .git and __pycache__.
CopiedDirs(src_dir) ==
    { q \in DescDirs : /\ IsPrefix(src_dir, q) /\ Len(q) > Len(src_dir)
                       /\ q[Len(src_dir) + 1] \notin {".git", "__pycache__"} }

\* One file copied over another: an absent source file leaves what is there.
CopyFile(from, to) == IF from.kind = "none" THEN to ELSE from

\* Lines 552-561: the tree after the copy of src_dir's items into dest_dir.
\* The descriptor files of src_dir itself are skipped (lines 558-560); those
\* of the directories below it are copied with everything else.
CopyItems(t, src_dir, dest_dir) ==
    LET target(q) == normpath(dest_dir \o SubSeq(q, Len(src_dir) + 1, Len(q)))
        made == DOMAIN t \cup { target(q) : q \in CopiedDirs(src_dir) }
        from(p) == { q \in CopiedDirs(src_dir) : target(q) = p }
    IN [p \in made |->
          IF from(p) = {} THEN DestFiles(t, p)
          ELSE LET q == CHOOSE x \in from(p) : TRUE
               IN [yaml |-> CopyFile(SrcFiles(q).yaml, DestFiles(t, p).yaml),
                   yml  |-> CopyFile(SrcFiles(q).yml, DestFiles(t, p).yml)]]

\* Lines 563-564: the rewritten descriptor is written as kustomization.yaml.
WriteDesc(t, dest_dir, new_bases) ==
    [t EXCEPT ![normpath(dest_dir)].yaml = MapFile(new_bases)]

MFrame(src, dst) ==
    [src |-> src, dst |-> dst, pc |-> "open", i |-> 1, new_bases |-> <<>>]

MTop == mstack[Len(mstack)]
MBases == DescOf(MTop.src).bases
MBase == MBases[MTop.i]

\* Lines 540-542 for the base `base` of the call on src_dir.
AbsBase(src_dir, base) == normpath(Join(src_dir, base))
RelBase(src_dir, base) == relpath(AbsBase(src_dir, base), RootSrc)
DestBase(src_dir, base) == RootDest \o Comps(RelBase(src_dir, base))

MInit ==
    /\ mstack = <<>>
    /\ dest = <<>>
    /\ placed = {}
    /\ mstatus = "idle"

\* Lines 590-607: the clone and the checkout succeed, and the root call of
\* copy_and_rewrite_kustomization is made.
MClone ==
    /\ rstatus = "returned" /\ mstatus = "idle"
    /\ mstatus' = "running"
    /\ mstack' = <<MFrame(RootSrc, RootDest)>>
    /\ placed' = {[src |-> RootSrc, dst |-> normpath(RootDest)]}
    /\ UNCHANGED <<dest, rvars, evars, dvars, fvars>>

\* Lines 617-619: the clone or the checkout raises and the command exits.
MCloneFails ==
    /\ rstatus = "returned" /\ mstatus = "idle"
    /\ mstatus' = "error"
    /\ UNCHANGED <<mstack, dest, placed, rvars, evars, dvars, fvars>>

MRunning == mstatus = "running" /\ mstack # <<>>

\* No `except` in copy_and_rewrite_kustomization: an exception leaves every
\* call and is caught at line 617.
MRaise ==
    /\ mstack' = <<>>
    /\ mstatus' = "error"

\* Lines 523-530: the destination is made, then FileNotFoundError.
MOpenMissing ==
    /\ MRunning /\ MTop.pc = "open" /\ ~HasDesc(MTop.src)
    /\ dest' = MakeDirs(dest, normpath(MTop.dst))
    /\ MRaise
    /\ UNCHANGED <<placed, rvars, evars, dvars, fvars>>

\* Lines 531-534 on an empty descriptor: kustom is None, kustom.get raises.
MOpenEmpty ==
    /\ MRunning /\ MTop.pc = "open" /\ DescOf(MTop.src).kind = "empty"
    /\ dest' = MakeDirs(dest, normpath(MTop.dst))
    /\ MRaise
    /\ UNCHANGED <<placed, rvars, evars, dvars, fvars>>

\* Lines 523-533: the destination is made and the descriptor read.
MOpenRead ==
    /\ MRunning /\ MTop.pc = "open" /\ DescOf(MTop.src).kind \in {"yaml", "yml"}
    /\ dest' = MakeDirs(dest, normpath(MTop.dst))
    /\ mstack' = [mstack EXCEPT ![Len(mstack)].pc = "loop"]
    /\ UNCHANGED <<placed, mstatus, rvars, evars, dvars, fvars>>

MInLoop == MRunning /\ MTop.pc = "loop" /\ MTop.i <= Len(MBases)

\* Lines 535-537: a git base becomes the clone's path.
MGitBase ==
    /\ MInLoop /\ IsGit(MBase)
    /\ mstack' = [mstack EXCEPT ![Len(mstack)].new_bases = Append(@, RepoLocalBase),
                                ![Len(mstack)].i = @ + 1]
    /\ UNCHANGED <<dest, placed, mstatus, rvars, evars, dvars, fvars>>

\* Lines 538-545: a local base is copied by a recursive call.
MLocalBase ==
    /\ MInLoop /\ ~IsGit(MBase)
    /\ Len(mstack) < MaxDepth
    /\ mstack' = Append(mstack, MFrame(AbsBase(MTop.src, MBase),
                                       DestBase(MTop.src, MBase)))
    /\ placed' = placed \cup {[src |-> AbsBase(MTop.src, MBase),
                               dst |-> normpath(DestBase(MTop.src, MBase))]}
    /\ UNCHANGED <<dest, mstatus, rvars, evars, dvars, fvars>>

\* Line 543 at the recursion limit: RecursionError.
MRecursionError ==
    /\ MInLoop /\ ~IsGit(MBase)
    /\ Len(mstack) >= MaxDepth
    /\ MRaise
    /\ UNCHANGED <<dest, placed, rvars, evars, dvars, fvars>>

\* The caller's frame after the call for its local base returned (line 546).
MReturnTo(f) ==
    [f EXCEPT !.new_bases = Append(@, RelBase(f.src, DescOf(f.src).bases[f.i])),
              !.i = @ + 1]

\* Lines 550-564: the other items are copied, the rewritten descriptor is
\* written, and the call returns.
MFinish ==
    /\ MRunning /\ MTop.pc = "loop" /\ MTop.i > Len(MBases)
    /\ dest' = WriteDesc(CopyItems(dest, MTop.src, MTop.dst), MTop.dst,
                         MTop.new_bases)
    /\ IF Len(mstack) = 1
       THEN /\ mstack' = <<>>
            /\ mstatus' = "done"
       ELSE /\ mstack' = [SubSeq(mstack, 1, Len(mstack) - 1)
                            EXCEPT ![Len(mstack) - 1] = MReturnTo(@)]
            /\ mstatus' = mstatus
    /\ UNCHANGED <<placed, rvars, evars, dvars, fvars>>

MNext ==
    \/ MClone
    \/ MCloneFails
    \/ MOpenMissing
    \/ MOpenEmpty
    \/ MOpenRead
    \/ MGitBase
    \/ MLocalBase
    \/ MRecursionError
    \/ MFinish

----------------------------------------------------------------------------
(* Documents and deep_merge *)

\* A YAML value: None, a scalar, a sequence or a mapping (key -> value).
NullDoc == [t |-> "none", v |-> 0]
Scalar(n) == [t |-> "scalar", v |-> n]
SeqDoc(s) == [t |-> "seq", v |-> s]
MapDoc(f) == [t |-> "map", v |-> f]
EmptyMap == MapDoc(<<>>)

\* isinstance(d, dict)
IsDict(d) == d.t = "map"

\* Python's truth value of a document.
Truthy(d) ==
    CASE d.t = "none" -> FALSE
      [] d.t = "scalar" -> d.v # 0
      [] d.t = "seq" -> Len(d.v) > 0
      [] d.t = "map" -> DOMAIN d.v # {}

\* A merge in which a key of both keeps a's value.
RECURSIVE deep_merge_base_wins(_, _)
deep_merge_base_wins(a, b) ==
    IF ~IsDict(a) \/ ~IsDict(b) THEN b
    ELSE MapDoc([k \in DOMAIN a.v \cup DOMAIN b.v |->
                    IF k \notin DOMAIN a.v THEN b.v[k]
                    ELSE IF k \in DOMAIN b.v /\ IsDict(a.v[k]) /\ IsDict(b.v[k])
                         THEN deep_merge_base_wins(a.v[k], b.v[k])
                    ELSE a.v[k]])

\* A merge that replaces instead of recursing.
deep_merge_shallow(a, b) ==
    IF ~IsDict(a) \/ ~IsDict(b) THEN b
    ELSE MapDoc([k \in DOMAIN a.v \cup DOMAIN b.v |->
                    IF k \in DOMAIN b.v THEN b.v[k] ELSE a.v[k]])

\* deep_merge(a, b), lines 381-391.
RECURSIVE deep_merge(_, _)
deep_merge(a, b) ==
    IF ~IsDict(a) \/ ~IsDict(b) THEN b
    ELSE MapDoc([k \in DOMAIN a.v \cup DOMAIN b.v |->
                    IF k \notin DOMAIN b.v THEN a.v[k]
                    ELSE IF k \in DOMAIN a.v /\ IsDict(a.v[k]) /\ IsDict(b.v[k])
                         THEN deep_merge(a.v[k], b.v[k])
                    ELSE b.v[k]])

Keys == {"a", "b"}

Leaves == {Scalar(1), Scalar(2), SeqDoc(<<1>>)}

\* The mappings over Keys whose values are in vals.
MapsOver(vals) == { MapDoc(f) : f \in UNION { [ks -> vals] : ks \in SUBSET Keys } }


\* The number of keys of a document, at all levels together.
RECURSIVE Entries(_)
Entries(d) ==
    IF ~IsDict(d) THEN 0
    ELSE LET RECURSIVE Sum(_)
             Sum(ks) == IF ks = {} THEN 0
                        ELSE LET k == CHOOSE x \in ks : TRUE
                             IN 1 + Entries(d.v[k]) + Sum(ks \ {k})
         IN Sum(DOMAIN d.v)

\* The mappings nested at most three levels deep that have at most
\* MaxEntries keys, built level by level.
Small(ds) == { d \in ds : Entries(d) <= MaxEntries }
SmallMaps1 == Small(MapsOver(Leaves \cup {EmptyMap}))
SmallMaps2 == Small(MapsOver(Leaves \cup { d \in SmallMaps1 : Entries(d) < MaxEntries }))
SmallMaps3 == Small(MapsOver(Leaves \cup { d \in SmallMaps2 : Entries(d) < MaxEntries }))

DInit ==
    /\ dm_a \in SmallMaps3
    /\ dm_b \in SmallMaps3
    /\ dm_result = NullDoc
    /\ dm_pc = "call"

DIdle ==
    /\ dm_a = NullDoc /\ dm_b = NullDoc /\ dm_result = NullDoc /\ dm_pc = "idle"

----------------------------------------------------------------------------
(* ValuesMergeEngine: extract_values_from_kustomization *)

\* The text of a values.yaml: the empty string, or the text of a document.
RawEmpty == [kind |-> "empty", doc |-> NullDoc]
RawOf(d) == [kind |-> "yaml", doc |-> d]

\* yaml.safe_load(values_yaml)
safe_load(raw) == IF raw.kind = "empty" THEN NullDoc ELSE raw.doc

\* The truth value of a values.yaml text: a non-empty string.
RawTruthy(raw) == raw.kind # "empty"

\* A dict in insertion order is a sequence of (name, value) pairs.
DictHas(d, name) == \E i \in 1..Len(d) : d[i].name = name

DictGet(d, name) ==
    IF DictHas(d, name)
    THEN Some(d[CHOOSE i \in 1..Len(d) : d[i].name = name].value)
    ELSE None

\* d[name] = value: a key already there keeps its place.
DictSet(d, name, value) ==
    IF DictHas(d, name)
    THEN [i \in 1..Len(d) |-> IF d[i].name = name
                              THEN [name |-> name, value |-> value] ELSE d[i]]
    ELSE Append(d, [name |-> name, value |-> value])

\* A document of kind ConfigMap or Secret that holds a values.yaml:
\* doc.get("metadata", {}).get("name", "<no-name>") and the raw text.
DocName(doc) == IF doc.name = None THEN <<"<no-name>">> ELSE doc.name[1]

\* Lines 244-253 and 273-281: the documents of one stream added to a table.
RECURSIVE AddDocs(_, _)
AddDocs(table, stream) ==
    IF stream = <<>> THEN table
    ELSE AddDocs(DictSet(table, DocName(Head(stream)), Head(stream).raw),
                 Tail(stream))

NameX  == <<"X">>
NameZ  == <<"Z">>
NameY  == <<"Y">>
NameYp == <<"Y", "-p">>
NameYprod == <<"Y", "-p", "rod">>

DocA1   == MapDoc([a |-> Scalar(1)])
DocA2B3 == MapDoc([a |-> Scalar(2), b |-> Scalar(3)])
DocAA1  == MapDoc([a |-> MapDoc([a |-> Scalar(1)])])
DocAB2  == MapDoc([a |-> MapDoc([b |-> Scalar(2)])])
DocList == SeqDoc(<<1>>)

KDoc(name, raw) == [name |-> Some(name), raw |-> raw]

\* The build output's ConfigMap documents.
DocsPool ==
    { <<>>, <<KDoc(NameX, RawEmpty)>>, <<KDoc(NameX, RawOf(DocA1))>>,
      <<KDoc(NameX, RawOf(DocAA1))>> }

\* What sops -d gives for one secrets.enc.yaml: a failure, or its documents.
Undecryptable == [ok |-> FALSE, stream |-> <<>>]
Decrypted(stream) == [ok |-> TRUE, stream |-> stream]

FilePool ==
    { Undecryptable,
      Decrypted(<<KDoc(NameY, RawOf(DocA2B3))>>),
      Decrypted(<<KDoc(NameY, RawOf(DocAB2))>>),
      Decrypted(<<KDoc(NameY, RawOf(DocList))>>),
      Decrypted(<<KDoc(NameY, RawEmpty)>>),
      Decrypted(<<KDoc(NameYp, RawOf(DocA1))>>) }

FileNames == {"f1", "f2"}

Entry(kind, name) == [kind |-> kind, name |-> name]

EntryPool ==
    { Entry("ConfigMap", Some(NameX)), Entry("ConfigMap", Some(NameZ)),
      Entry("Secret", Some(NameY)), Entry("Secret", Some(NameYprod)),
      Entry("Secret", None) }

\* The orders in which a set of files can be listed.
FileOrders(names) ==
    { o \in UNION { [1..n -> names] : n \in {Cardinality(names)} } :
        \A i \in 1..Len(o) : \A j \in 1..Len(o) : i # j => o[i] # o[j] }

EInit ==
    /\ docs \in DocsPool
    /\ \E names \in SUBSET FileNames : files \in [names -> FilePool]
    /\ \E n \in 0..MaxOrder : values_from \in [1..n -> EntryPool]
    /\ secret_files = <<>>
    /\ configmaps = <<>>
    /\ secrets = <<>>
    /\ merged_values = EmptyMap
    /\ frags = <<>>
    /\ epos = 1
    /\ estatus = "build"

\* Lines 242-253: the ConfigMaps of the build output.
EBuild ==
    /\ estatus = "build"
    /\ configmaps' = AddDocs(<<>>, docs)
    /\ estatus' = "list"
    /\ UNCHANGED <<docs, files, values_from, secret_files, secrets, merged_values,
                   frags, epos, rvars, mvars, dvars, fvars>>

\* Line 255: find_secrets_files_recursive returns list(found), a set of
\* strings listed in an order that changes from run to run.
EListFiles ==
    /\ estatus = "list"
    /\ secret_files' \in FileOrders(DOMAIN files)
    /\ estatus' = "decrypt"
    /\ UNCHANGED <<docs, files, values_from, configmaps, secrets, merged_values,
                   frags, epos, rvars, mvars, dvars, fvars>>

EInFiles == estatus = "decrypt" /\ epos <= Len(secret_files)

\* Lines 267-271: sops fails, the file is skipped.
EDecryptFails ==
    /\ EInFiles /\ ~files[secret_files[epos]].ok
    /\ epos' = epos + 1
    /\ UNCHANGED <<docs, files, values_from, secret_files, configmaps, secrets,
                   merged_values, frags, estatus, rvars, mvars, dvars, fvars>>

\* Lines 272-281: the Secrets of one decrypted file.
ECollectSecrets ==
    /\ EInFiles /\ files[secret_files[epos]].ok
    /\ secrets' = AddDocs(secrets, files[secret_files[epos]].stream)
    /\ epos' = epos + 1
    /\ UNCHANGED <<docs, files, values_from, secret_files, configmaps,
                   merged_values, frags, estatus, rvars, mvars, dvars, fvars>>

\* Lines 286-303: the HelmRelease is found and the merge starts.
EHelmRelease ==
    /\ estatus = "decrypt" /\ epos > Len(secret_files)
    /\ estatus' = "merge"
    /\ epos' = 1
    /\ UNCHANGED <<docs, files, values_from, secret_files, configmaps, secrets,
                   merged_values, frags, rvars, mvars, dvars, fvars>>

\* Lines 319-324: the first name of the table that `name` starts with.
PrefixMatch(table, name) ==
    LET hits == { i \in 1..Len(table) : IsPrefix(table[i].name, name) }
    IN IF hits = {} THEN None
       ELSE Some(table[CHOOSE i \in hits : \A j \in hits : i <= j].value)

\* Lines 315-324 for a name that is a string: the exact match, else the
\* prefix match.
SecretValue(table, name) ==
    IF DictGet(table, name) # None THEN DictGet(table, name)
    ELSE PrefixMatch(table, name)

\* Line 320 with name = None: secrets.get(None) is None, and the first
\* name.startswith raises AttributeError.
EntryRaises(table, entry) ==
    entry.kind = "Secret" /\ entry.name = None /\ table # <<>>

\* The values.yaml text an entry selects, if any (lines 307-308, 313-325).
EntryRaw(cms, secs, entry) ==
    IF entry.kind = "ConfigMap"
    THEN IF entry.name # None THEN DictGet(cms, entry.name[1]) ELSE None
    ELSE IF entry.kind = "Secret" /\ entry.name # None
    THEN LET got == SecretValue(secs, entry.name[1])
         IN IF got # None /\ RawTruthy(got[1]) THEN got ELSE None
    ELSE None

\* The document an entry gives to deep_merge, if any (lines 310-311, 329-330).
EntryData(cms, secs, entry) ==
    LET raw == EntryRaw(cms, secs, entry)
    IN IF raw # None /\ Truthy(safe_load(raw[1])) THEN Some(safe_load(raw[1]))
       ELSE None

EInEntries == estatus = "merge" /\ epos <= Len(values_from)
EEntry == values_from[epos]

\* Lines 312 and 331: the entry's document is merged onto the accumulator.
EMergeEntry ==
    /\ EInEntries /\ ~EntryRaises(secrets, EEntry)
    /\ EntryData(configmaps, secrets, EEntry) # None
    /\ merged_values' =
          deep_merge(merged_values, EntryData(configmaps, secrets, EEntry)[1])
    /\ frags' = Append(frags, EntryData(configmaps, secrets, EEntry)[1])
    /\ epos' = epos + 1
    /\ UNCHANGED <<docs, files, values_from, secret_files, configmaps, secrets,
                   estatus, rvars, mvars, dvars, fvars>>

\* An entry that selects nothing, or an empty document, is passed over.
ESkipEntry ==
    /\ EInEntries /\ ~EntryRaises(secrets, EEntry)
    /\ EntryData(configmaps, secrets, EEntry) = None
    /\ epos' = epos + 1
    /\ UNCHANGED <<docs, files, values_from, secret_files, configmaps, secrets,
                   merged_values, frags, estatus, rvars, mvars, dvars, fvars>>

\* Lines 348-350: the AttributeError of line 320 ends the command.
EEntryRaises ==
    /\ EInEntries /\ EntryRaises(secrets, EEntry)
    /\ estatus' = "error"
    /\ UNCHANGED <<docs, files, values_from, secret_files, configmaps, secrets,
                   merged_values, frags, epos, rvars, mvars, dvars, fvars>>

\* Lines 332-347: nothing merged is an error, else the document is printed.
EFinish ==
    /\ estatus = "merge" /\ epos > Len(values_from)
    /\ estatus' = IF Truthy(merged_values) THEN "done" ELSE "nodata"
    /\ UNCHANGED <<docs, files, values_from, secret_files, configmaps, secrets,
                   merged_values, frags, epos, rvars, mvars, dvars, fvars>>

ENext ==
    \/ EBuild
    \/ EListFiles
    \/ EDecryptFails
    \/ ECollectSecrets
    \/ EHelmRelease
    \/ EMergeEntry
    \/ ESkipEntry
    \/ EEntryRaises
    \/ EFinish

\* deep_merge(a, b) is called and returns.
DMerge ==
    /\ dm_pc = "call"
    /\ dm_result' = deep_merge(dm_a, dm_b)
    /\ dm_pc' = "returned"
    /\ UNCHANGED <<dm_a, dm_b, rvars, mvars, evars, fvars>>

\* The merge engine at rest, for the specifications of the other commands.
EIdle ==
    /\ docs = <<>> /\ files = <<>> /\ values_from = <<>>
    /\ secret_files = <<>> /\ configmaps = <<>> /\ secrets = <<>>
    /\ merged_values = EmptyMap /\ frags = <<>> /\ epos = 1
    /\ estatus = "idle"

\* The overlay commands at rest.
OverlayIdle ==
    /\ fs = [d \in DescDirs |-> NoDesc]
    /\ rstack = <<>> /\ seen = {} /\ visits = [d \in DescDirs |-> 0]
    /\ rstatus = "idle" /\ rresult = NoResult
    /\ MInit

----------------------------------------------------------------------------
(* The encrypted-file walk: find_secrets_files_recursive *)

\* os.path.abspath of the secrets.enc.yaml of a directory.
SecretsFile(dir) == Append(dir, "secrets.enc.yaml")

\* glob.glob(os.path.join(current, "secrets.enc.yaml")): the file, if there.
\* The names of the tree hold none of the characters glob reads as a pattern
\* ("[", "*", "?"); in a directory named with one, glob does not find the file.
FGlob(current) == IF current \in enc THEN {SecretsFile(current)} ELSE {}

\* The paths the loop of lines 374-377 appends to the stack, in its order.
FLocalBases(current) ==
    LET local == SelectSeq(DescOf(current).bases, LAMBDA b : ~IsGit(b))
    IN [i \in 1..Len(local) |-> LocalBasePath(current, local[i])]

\* stack.pop()
FCurrent == fstack[Len(fstack)]
FPopped == SubSeq(fstack, 1, Len(fstack) - 1)

FInit ==
    /\ enc \in SUBSET DescDirs
    /\ fstack = <<Root>>
    /\ fseen = {}
    /\ found = {}
    /\ fvisits = [d \in DescDirs |-> 0]
    /\ fstatus = "running"

\* The walk at rest, for the specifications of the other commands.
FIdle ==
    /\ enc = {} /\ fstack = <<>> /\ fseen = {} /\ found = {}
    /\ fvisits = [d \in DescDirs |-> 0]
    /\ fstatus = "idle"

\* Lines 358-361: a directory already in `seen` is dropped.
FSkipSeen ==
    /\ fstatus = "running" /\ fstack # <<>>
    /\ FCurrent \in fseen
    /\ fstack' = FPopped
    /\ UNCHANGED <<enc, fseen, found, fvisits, fstatus, rvars, mvars, evars, dvars>>

\* Lines 362-365, common to every directory that is new: it is put into
\* `seen` and its secrets.enc.yaml, if there, into `found`.
FProcess ==
    /\ fstatus = "running" /\ fstack # <<>>
    /\ FCurrent \notin fseen
    /\ fseen' = fseen \cup {FCurrent}
    /\ found' = found \cup FGlob(FCurrent)
    /\ fvisits' = [fvisits EXCEPT ![FCurrent] = @ + 1]

\* Lines 367-371: the directory has no descriptor, `continue`.
FNoDescriptor ==
    /\ FProcess
    /\ ~HasDesc(FCurrent)
    /\ fstack' = FPopped
    /\ UNCHANGED <<enc, fstatus, rvars, mvars, evars, dvars>>

\* Lines 372-374 on an empty descriptor: kustom is None and kustom.get raises
\* AttributeError, which nothing in the function catches.
FBadDescriptor ==
    /\ FProcess
    /\ DescOf(FCurrent).kind = "empty"
    /\ fstack' = <<>>
    /\ fstatus' = "raised"
    /\ UNCHANGED <<enc, rvars, mvars, evars, dvars>>

\* Lines 372-377: the local bases of the descriptor are pushed.
FReadDescriptor ==
    /\ FProcess
    /\ DescOf(FCurrent).kind \in {"yaml", "yml"}
    /\ fstack' = FPopped \o FLocalBases(FCurrent)
    /\ UNCHANGED <<enc, fstatus, rvars, mvars, evars, dvars>>

\* Line 378: the stack is empty, list(found) is returned.
FReturn ==
    /\ fstatus = "running"
    /\ fstack = <<>>
    /\ fstatus' = "returned"
    /\ UNCHANGED <<enc, fstack, fseen, found, fvisits, rvars, mvars, evars, dvars>>

FNext ==
    \/ FSkipSeen
    \/ FNoDescriptor
    \/ FBadDescriptor
    \/ FReadDescriptor
    \/ FReturn

----------------------------------------------------------------------------
(* Specifications *)

Init == InitFs /\ RInit /\ MInit /\ EIdle /\ DIdle /\ FIdle

\* parse_kustomization_for_git_info(kustomization_dir) alone.
SpecResolve == Init /\ [][RNext]_vars

Next == RNext \/ MNext

\* kustomize_build_with_local_base(kustomization_dir): the resolution, then
\* the clone and the materialization.
Spec == Init /\ [][Next]_vars

InitMerge == OverlayIdle /\ EInit /\ DIdle /\ FIdle

\* extract_values_from_kustomization(kustomization_dir), from the build
\* output on.
SpecMerge == InitMerge /\ [][ENext]_vars

InitDeepMerge == OverlayIdle /\ EIdle /\ DInit /\ FIdle

\* deep_merge on every pair of small mappings.
SpecDeepMerge == InitDeepMerge /\ [][DMerge]_vars

\* The resolver and the materializer are at rest over the tree.
InitWalk ==
    /\ InitFs
    /\ rstack = <<>> /\ seen = {} /\ visits = [d \in DescDirs |-> 0]
    /\ rstatus = "idle" /\ rresult = NoResult
    /\ MInit /\ EIdle /\ DIdle /\ FInit

\* find_secrets_files_recursive(kustomization_dir) alone.
SpecWalk == InitWalk /\ [][FNext]_vars

RDone == rstatus \in {"returned", "raised"}

----------------------------------------------------------------------------
(* Claims about the base resolver *)

\* C4: within one resolution no directory has its descriptor read more than
\* once, the starting directory included.
C4_VisitedAtMostOnce == \A d \in DescDirs : visits[d] <= 1

\* The steps one call has left when nothing it calls is counted: the open,
\* one per base still to try, and the fallback.
RFrameLeft(f) ==
    (IF f.pc = "open" THEN 1 ELSE 0) + (Len(DescOf(f.dir).bases) + 1 - f.i) + 1

\* The most steps a new call can add.
RCallCost == 3 + MaxRefs

RECURSIVE RStackLeft(_)
RStackLeft(stack) ==
    IF stack = <<>> THEN 0 ELSE RFrameLeft(Head(stack)) + RStackLeft(Tail(stack))

\* Every new call puts one more directory into `seen`, and every directory in
\* `seen` is the target of a local base of its own, of which the tree has at
\* most MaxRefs.
RMeasure == RCallCost * (MaxRefs - Cardinality(seen)) + RStackLeft(rstack)

\* C5: on every overlay graph, cyclic ones included, the resolution
\* eventually returns a remote reference or fails with an error.
\* It is stated as a variant: a natural number that every step of the
\* resolution makes smaller, while a step stays possible until the end.
C5_ResolutionTerminates ==
    /\ [][RMeasure' < RMeasure]_rvars
    /\ [](RMeasure >= 0 /\ (RDone \/ RCanStep))

\* A resolution that ended after reading SubA, whose base ".." points back
\* to the starting directory.
C5_Witness ==
    /\ RDone
    /\ visits[SubA] > 0
    /\ \E i \in 1..Len(fs[SubA].bases) : fs[SubA].bases[i] = <<"..">>

\* The first git base of a depth-first walk of the base lists in declared
\* order that walks every directory once: [found, base, visited].
RECURSIVE Walk(_, _, _)
Walk(dir, i, visited) ==
    LET bases == DescOf(dir).bases
    IN IF DescOf(dir).kind \notin {"yaml", "yml"} \/ i > Len(bases)
       THEN [found |-> FALSE, base |-> <<>>, visited |-> visited]
       ELSE IF IsGit(bases[i])
       THEN [found |-> TRUE, base |-> bases[i], visited |-> visited]
       ELSE LET p == LocalBasePath(dir, bases[i])
            IN IF p \in visited THEN Walk(dir, i + 1, visited)
               ELSE LET sub == Walk(p, 1, visited \cup {p})
                    IN IF sub.found THEN sub
                       ELSE Walk(dir, i + 1, sub.visited)

\* C6: the resolution returns the remote reference that comes first in the
\* depth-first walk of the base lists in declared order.
C6_FirstRemoteReturned ==
    RDone =>
        LET w == Walk(Root, 1, {Root})
        IN IF w.found
           THEN rstatus = "returned" /\ rresult = ParseGit(w.base)
           ELSE rstatus = "raised"

\* The directories the local bases of the descriptor of d name.
LocalTargets(d) ==
    IF DescOf(d).kind \in {"yaml", "yml"}
    THEN {LocalBasePath(d, DescOf(d).bases[i]) :
             i \in {n \in 1..Len(DescOf(d).bases) : ~IsGit(DescOf(d).bases[n])}}
    ELSE {}

\* The directories reached from those of `todo` through chains of local bases.
RECURSIVE Reach(_, _)
Reach(todo, done) ==
    IF todo \subseteq done THEN done
    ELSE LET d == CHOOSE x \in todo \ done : TRUE
         IN Reach((todo \ {d}) \cup LocalTargets(d), done \cup {d})

\* The descriptor of d lists a git base.
HasRemote(d) ==
    /\ DescOf(d).kind \in {"yaml", "yml"}
    /\ \E i \in 1..Len(DescOf(d).bases) : IsGit(DescOf(d).bases[i])

\* The base of the descriptor of dir is remote or leads to a remote reference.
LeadsToRemote(dir, base) ==
    \/ IsGit(base)
    \/ \E p \in Reach({LocalBasePath(dir, base)}, {}) : HasRemote(p)

\* C11: a failed or skipped local base does not end the resolution: when a
\* base list that was walked has, after local bases only, a reference that is
\* remote or leads to a remote reference, the resolution does not fail.
C11_SiblingsTried ==
    rstatus = "raised" =>
        \A d \in DescDirs :
            (visits[d] > 0 /\ DescOf(d).kind \in {"yaml", "yml"}) =>
                LET bases == DescOf(d).bases
                IN \A j \in 2..Len(bases) :
                       (\A i \in 1..(j - 1) : ~IsGit(bases[i]))
                           => ~LeadsToRemote(d, bases[j])

\* The same, on the trees in which no reference holds "?ref=" twice.
C11_SiblingsTriedWhenParsed ==
    (\A d \in DescDirs : \A i \in 1..Len(DescOf(d).bases) :
        IsGit(DescOf(d).bases[i]) => ~ParseRaises(DescOf(d).bases[i]))
    => C11_SiblingsTried

\* The text of a git base before and after its first "?ref=".
FirstRefSplit(base) ==
    LET base_stripped == Tail(base)
        at == Find(base_stripped, "?ref=", 1)
    IN [url_part |-> SubSeq(base_stripped, 1, at - 1),
        revision |-> SubSeq(base_stripped, at + 1, Len(base_stripped))]

\* C14: a git base that holds "?ref=", once or more, is parsed: the step that
\* looks at it returns, with the revision that is everything after the first
\* "?ref=" and the repository and subdirectory of the text before it.
C14_SplitsAtFirstRef ==
    [][(RInLoop /\ IsGit(RBase) /\ Find(Tail(RBase), "?ref=", 1) # 0) =>
          LET first == FirstRefSplit(RBase)
              pair  == SplitUrl(first.url_part)
          IN /\ rstatus' = "returned"
             /\ rresult' = [repo_url |-> RStrip(pair[1]),
                            ref      |-> Some(first.revision),
                            subdir   |-> LStrip(pair[2])]]_rvars

\* The same, for the bases that hold "?ref=" exactly once.
C14_SplitsAtOnlyRef ==
    [][(RInLoop /\ IsGit(RBase) /\ Len(Split(Tail(RBase), "?ref=")) = 2) =>
          LET first == FirstRefSplit(RBase)
              pair  == SplitUrl(first.url_part)
          IN /\ rstatus' = "returned"
             /\ rresult' = [repo_url |-> RStrip(pair[1]),
                            ref      |-> Some(first.revision),
                            subdir   |-> LStrip(pair[2])]]_rvars

----------------------------------------------------------------------------
(* Claims about the local materializer *)

MDone == mstatus = "done"

\* C1: after the materialization no descriptor of a materialized directory
\* (the root and every local sub-base) holds a git base, and its rewritten
\* descriptor has the clone's path wherever the source has a git base.
C1_NoRemoteLeft ==
    MDone =>
        \A pl \in placed :
            LET src == DescOf(pl.src).bases
                out == dest[pl.dst].yaml.bases
                old == dest[pl.dst].yml.bases
            IN /\ \A i \in 1..Len(out) : ~IsGit(out[i])
               /\ \A i \in 1..Len(old) : ~IsGit(old[i])
               /\ Len(out) = Len(src)
               /\ \A i \in 1..Len(src) : IsGit(src[i]) => out[i] = RepoLocalBase

\* C2: after the materialization every local base of a destination
\* descriptor, resolved from the directory of that descriptor, names the
\* destination directory its source base was materialized into.
C2_LocalBasesResolve ==
    MDone =>
        \A pl \in placed :
            LET src == DescOf(pl.src).bases
                out == dest[pl.dst].yaml.bases
            IN /\ Len(out) = Len(src)
               /\ \A i \in 1..Len(src) :
                     ~IsGit(src[i]) =>
                        /\ [src |-> AbsBase(pl.src, src[i]),
                            dst |-> normpath(Join(pl.dst, out[i]))] \in placed
                        /\ DestFiles(dest, normpath(Join(pl.dst, out[i]))).yaml.kind
                              = "map"

\* C3: the traversal is bounded by a cycle guard: no directory is entered
\* again while its own materialization is still going on.
C3_NoReentry ==
    \A i \in 1..Len(mstack) : \A j \in 1..Len(mstack) :
        i # j => mstack[i].src # mstack[j].src

----------------------------------------------------------------------------
(* Claims about the values merge *)

EMerged == estatus \in {"done", "nodata"}

\* The later value has won in m: a value f that is no mapping is m itself,
\* and every entry of a mapping f has won in m's entry of that key.
RECURSIVE Covers(_, _)
Covers(m, f) ==
    IF ~IsDict(f) THEN m = f
    ELSE IsDict(m) /\ \A k \in DOMAIN f.v : k \in DOMAIN m.v /\ Covers(m.v[k], f.v[k])

C8_NoEntryFails == estatus # "error"

\* The secrets table when the files are iterated in the order `order`.
RECURSIVE SecretsFrom(_, _)
SecretsFrom(table, order) ==
    IF order = <<>> THEN table
    ELSE SecretsFrom(IF files[Head(order)].ok
                     THEN AddDocs(table, files[Head(order)].stream) ELSE table,
                     Tail(order))

\* The end of the merge of `entries` onto acc.
RECURSIVE MergeFrom(_, _, _)
MergeFrom(acc, table, entries) ==
    IF entries = <<>>
    THEN [status |-> IF Truthy(acc) THEN "done" ELSE "nodata", merged |-> acc]
    ELSE IF EntryRaises(table, Head(entries))
    THEN [status |-> "error", merged |-> acc]
    ELSE LET data == EntryData(AddDocs(<<>>, docs), table, Head(entries))
         IN MergeFrom(IF data = None THEN acc ELSE deep_merge(acc, data[1]),
                      table, Tail(entries))

\* What a run that iterates the files in the order `order` ends with.
OutcomeFor(order) == MergeFrom(EmptyMap, SecretsFrom(<<>>, order), values_from)

\* C9: the run ends the same way whatever the order in which the set of
\* encrypted files is iterated.
C9_SameOnEveryRun ==
    estatus \in {"done", "nodata", "error"} =>
        \A order \in FileOrders(DOMAIN files) :
            OutcomeFor(order) = [status |-> estatus, merged |-> merged_values]

----------------------------------------------------------------------------
(* Claims about deep_merge *)

\* r is the merge of the mappings a and b: it has the keys of both, a key of
\* a alone has a's value, a key of both with two mappings has their merge,
\* and every other key of b has b's value.
RECURSIVE IsMergeOf(_, _, _)
IsMergeOf(a, b, r) ==
    /\ IsDict(r)
    /\ DOMAIN r.v = DOMAIN a.v \cup DOMAIN b.v
    /\ \A k \in DOMAIN r.v :
          IF k \notin DOMAIN b.v THEN r.v[k] = a.v[k]
          ELSE IF k \in DOMAIN a.v /\ IsDict(a.v[k]) /\ IsDict(b.v[k])
               THEN IsMergeOf(a.v[k], b.v[k], r.v[k])
          ELSE r.v[k] = b.v[k]

\* C10: deep_merge(a, b) of two mappings is their merge; with b empty it is
\* a, and with no key in common it is the union.
C10_DeepMerge ==
    dm_pc = "returned" =>
        /\ IsMergeOf(dm_a, dm_b, dm_result)
        /\ (DOMAIN dm_b.v = {} => dm_result = dm_a)
        /\ (DOMAIN dm_a.v \cap DOMAIN dm_b.v = {} =>
               \A k \in DOMAIN dm_result.v :
                   dm_result.v[k] = IF k \in DOMAIN dm_a.v THEN dm_a.v[k]
                                    ELSE dm_b.v[k])

\* A merge that recursed: a key of both arguments held two mappings with a
\* key of their own in common.
C10_Witness ==
    /\ dm_pc = "returned"
    /\ \E k \in DOMAIN dm_a.v \cap DOMAIN dm_b.v :
          /\ IsDict(dm_a.v[k]) /\ IsDict(dm_b.v[k])
          /\ DOMAIN dm_a.v[k].v \cap DOMAIN dm_b.v[k].v # {}
          /\ dm_result.v[k] # dm_b.v[k]
          /\ dm_result.v[k] # dm_a.v[k]

----------------------------------------------------------------------------
(* Claims about the encrypted-file walk *)

FDone == fstatus \in {"returned", "raised"}

\* The secrets.enc.yaml files of the directories reached from the starting
\* directory through chains of local bases, the starting directory included.
ReachableSecrets == {SecretsFile(d) : d \in Reach({Root}, {}) \cap enc}

\* What the caller of the walk gets: the files of list(found) when the walk
\* returns, nothing when it raises.
FResult == IF fstatus = "returned" THEN found ELSE {}

\* C12: an error raised while the descriptor of one directory is read gives
\* up that directory's branch only: the walk still returns, and what it
\* returns holds the encrypted files of the other directories.
C12_BadDescriptorKeepsWalk ==
    (FDone /\ \E d \in DescDirs : fvisits[d] > 0 /\ DescOf(d).kind = "empty")
    => \A d \in (Reach({Root}, {}) \cap enc) :
           DescOf(d).kind # "empty" => SecretsFile(d) \in FResult

\* C13: no directory is processed twice, only directories reached through
\* local bases are processed, and the walk returns exactly the encrypted
\* files of the directories reached from the starting directory.
C13_WalkExact ==
    /\ \A d \in DescDirs : fvisits[d] <= 1
    /\ fseen \subseteq Reach({Root}, {})
    /\ FDone => (fstatus = "returned" /\ FResult = ReachableSecrets)

\* The same, on the trees in which no directory reached has an empty
\* descriptor.
C13_WalkExactWhenRead ==
    (\A d \in Reach({Root}, {}) : DescOf(d).kind # "empty") => C13_WalkExact

====
